---- MODULE Spec2Model ----
(***************************************************************************)
(* Asset prefetch-and-cache pipeline of the XR Industrial Club client      *)
(* (Cache.js): prefetchAssets, clearAllCaches, getCacheInfo, the IndexedDB *)
(* metadata store, Cache Storage, and the service worker's CLEAR_CACHE     *)
(* handler.  Every await of the JavaScript is a step of the model.         *)
(***************************************************************************)
EXTENDS Integers, Sequences, FiniteSets, TLC

\* ------------------------------------------------------------------ bounds
MaxList == 3          \* longest asset list handed to prefetchAssets
MaxLen == 2           \* largest body length / declared content-length (bytes)
MaxTime == 1          \* largest value Date.now() is observed to return
MaxAfterClear == 1    \* longest asset list of the run that follows a clear
MaxBoth == 1          \* longest asset list of each of two overlapping runs

Urls == {"a", "b"}    \* asset identifiers (keyPath 'url')
Runs == {1, 2}        \* invocations of prefetchAssets that may be alive

\* Cache Storage names, split where startsWith('xr-cache-') looks.
CACHE_VERSION == <<"xr-cache-", "v1">>
OldCache == <<"xr-cache-", "v0">>
ForeignCache == <<"app-", "shell">>
CacheNames == {CACHE_VERSION, OldCache, ForeignCache}

\* cacheName.startsWith('xr-cache-')
IsXrCache(cacheName) == cacheName[1] = "xr-cache-"

VARIABLES
  metaStore,     \* IndexedDB store xr_asset_meta: url -> record
  cacheStorage,  \* Cache Storage: cache name -> (url -> stored body length)
  now,           \* last value Date.now() returned
  run,           \* run[r]: the activation record of one prefetchAssets call
  clr,           \* the activation record of clearAllCaches
  sw,            \* the service worker's handleClearCache activation
  info,          \* what the last getCacheInfo call returned
  swFetch,       \* the service worker's fetch handler activation
  controls,      \* the Controls object and the browser's pointer lock
  lastSave,      \* the arguments of the last direct call of saveAssetMeta
  lights         \* the LightManager and its loadLightplan activation

\* the state of Cache.js, its stores and the CLEAR_CACHE handler
cacheVars == <<metaStore, cacheStorage, now, run, clr, sw, info>>

\* the state of the other components
otherVars == <<swFetch, controls, lastSave, lights>>

\* what a step of the fetch handler, of Controls, of LightManager leaves alone
notFetch == <<controls, lastSave, lights>>
notControls == <<cacheVars, swFetch, lastSave, lights>>
notLights == <<cacheVars, swFetch, controls, lastSave>>

vars ==
  <<metaStore, cacheStorage, now, run, clr, sw, info, swFetch, controls, lastSave,
    lights>>

\* ----------------------------------------------------------- small helpers
EmptyMap == [x \in {} |-> 0]

\* store.put / cache.put: an upsert that replaces the whole value for key k
MapPut(m, k, v) == [x \in (DOMAIN m) \cup {k} |-> IF x = k THEN v ELSE m[x]]

MapRemove(m, k) == [x \in (DOMAIN m) \ {k} |-> m[x]]

SeqsUpTo(S, n) == UNION {[1..k -> S] : k \in 0..n}

\* A progress value completed + received/contentLength, kept as a fraction.
Frac(n, d) == <<n, d>>

FracLeq(x, y) == x[1] * y[2] <= y[1] * x[2]

FracEq(x, y) == x[1] * y[2] = y[1] * x[2]

\* -------------------------------------------------------- metadata store
\* const data = { url, ...meta, timestamp: Date.now() }; store.put(data)
MetaRecord(url, meta, t) ==
  [url |-> url, size |-> meta.size, etag |-> meta.etag, timestamp |-> t]

\* faulty variant: the record is built but store.put is never called
SaveAssetMetaLost(store, url, meta, t) == store

\* faulty variant: the new fields are patched into the record that exists,
\* whose timestamp is kept
SaveAssetMetaPatches(store, url, meta, t) ==
  IF url \in DOMAIN store
    THEN MapPut(store, url, MetaRecord(url, meta, store[url].timestamp))
    ELSE MapPut(store, url, MetaRecord(url, meta, t))

\* faulty variant: store.add semantics, a record that exists is kept
SaveAssetMetaKeepsFirst(store, url, meta, t) ==
  IF url \in DOMAIN store THEN store ELSE MapPut(store, url, MetaRecord(url, meta, t))

SaveAssetMeta(store, url, meta, t) == MapPut(store, url, MetaRecord(url, meta, t))

\* the meta objects a caller may pass: with or without a timestamp of its own
Metas ==
  [size : 0..MaxLen, etag : {"e1"}]
    \cup [size : 0..MaxLen, etag : {"e1"}, timestamp : 0..MaxTime]

\* saveAssetMeta(url, meta) is called on its own; Date.now() returns t
SaveAssetMetaCall(url, meta, t) ==
  /\ t >= now
  /\ now' = t
  /\ metaStore' = SaveAssetMeta(metaStore, url, meta, t)
  /\ lastSave' = {[url |-> url, meta |-> meta, time |-> t]}
  /\ UNCHANGED <<cacheStorage, run, clr, sw, info, swFetch, controls, lights>>

\* faulty variant: the lookup uses a key no record has
GetAssetMetaWrongKey(store, url) == {}

\* store.get(url): the record, or undefined (modelled as the empty set)
GetAssetMeta(store, url) == IF url \in DOMAIN store THEN {store[url]} ELSE {}

\* ------------------------------------------------------- prefetchAssets
IdleRun ==
  [pc |-> "idle", list |-> <<>>, idx |-> 1, completed |-> 0,
   results |-> <<>>, log |-> <<>>,
   contentLength |-> 0, etag |-> "", bodyLen |-> 0, receivedLength |-> 0]

\* response.ok
ResponseOk(status) == status >= 200 /\ status <= 299

\* parseInt(response.headers.get('content-length') || '0', 10);
\* a header is the set holding its value, or the empty set when absent
ParseContentLength(header) == IF header = {} THEN 0 ELSE CHOOSE n \in header : TRUE

\* receivedLength / contentLength, added to completed (line 210-211)
FileProgress(completed, receivedLength, contentLength) ==
  Frac(completed * contentLength + receivedLength, contentLength)

Whole(completed) == Frac(completed, 1)

\* The callbacks and the network requests a run makes, in order.  i is the
\* position of the item in the list (a ghost: callbacks receive url and name).
EvStart(i, url) == [cb |-> "onFileStart", i |-> i, url |-> url]
EvFetch(i, url) == [cb |-> "fetch", i |-> i, url |-> url]
EvProgress(i, url, v, total) ==
  [cb |-> "onProgress", i |-> i, url |-> url, value |-> v, total |-> total]
EvComplete(i, url, size) == [cb |-> "onFileComplete", i |-> i, url |-> url, size |-> size]
EvError(i, url, error) == [cb |-> "onFileError", i |-> i, url |-> url, error |-> error]

Total(rn) == Len(rn.list)

CurUrl(rn) == rn.list[rn.idx]

\* for (const asset of assetList): the next iteration
NextItem(rn) == [rn EXCEPT !.idx = rn.idx + 1, !.pc = "loop"]

\* faulty variant: the try/catch wraps the loop, so the first error ends the run
CatchBlockAborts(rn, error) ==
  [rn EXCEPT
    !.log = Append(rn.log, EvError(rn.idx, CurUrl(rn), error)),
    !.results = Append(rn.results, [url |-> CurUrl(rn), error |-> error]),
    !.idx = rn.idx + 1,
    !.pc = "returned"]

\* the catch block (lines 229-237)
CatchBlock(rn, error) ==
  NextItem([rn EXCEPT
    !.log = rn.log \o <<EvError(rn.idx, CurUrl(rn), error),
                        EvProgress(rn.idx, CurUrl(rn), Whole(rn.completed + 1), Total(rn))>>,
    !.completed = rn.completed + 1,
    !.results = Append(rn.results, [url |-> CurUrl(rn), error |-> error])])

\* faulty variant: the hit reports a size of 0 instead of meta.size
CacheHitNoSize(rn, meta) ==
  NextItem([rn EXCEPT
    !.completed = rn.completed + 1,
    !.log = rn.log \o <<EvProgress(rn.idx, CurUrl(rn), Whole(rn.completed + 1), Total(rn)),
                        EvComplete(rn.idx, CurUrl(rn), 0)>>,
    !.results = Append(rn.results, [url |-> CurUrl(rn), cached |-> TRUE, size |-> 0])])

\* the cache-hit branch (lines 173-180)
CacheHit(rn, meta) ==
  NextItem([rn EXCEPT
    !.completed = rn.completed + 1,
    !.log = rn.log \o <<EvProgress(rn.idx, CurUrl(rn), Whole(rn.completed + 1), Total(rn)),
                        EvComplete(rn.idx, CurUrl(rn), meta.size)>>,
    !.results = Append(rn.results,
                       [url |-> CurUrl(rn), cached |-> TRUE, size |-> meta.size])])

\* faulty variant: the request is issued but not awaited, the loop goes on
CacheMissNoAwait(rn) ==
  NextItem([rn EXCEPT !.log = Append(rn.log, EvFetch(rn.idx, CurUrl(rn)))])

\* no record: const response = await fetch(url) is issued and awaited
CacheMiss(rn) ==
  [rn EXCEPT !.pc = "fetch", !.log = Append(rn.log, EvFetch(rn.idx, CurUrl(rn)))]

\* faulty variant: onFileComplete is invoked before completed++ and onProgress
DownloadedCompleteFirst(rn) ==
  NextItem([rn EXCEPT
    !.completed = rn.completed + 1,
    !.log = rn.log \o <<EvComplete(rn.idx, CurUrl(rn), rn.receivedLength),
                        EvProgress(rn.idx, CurUrl(rn), Whole(rn.completed + 1), Total(rn))>>,
    !.results = Append(rn.results,
                       [url |-> CurUrl(rn), cached |-> FALSE, size |-> rn.receivedLength])])

\* after saveAssetMeta resolved (lines 223-227)
Downloaded(rn) ==
  NextItem([rn EXCEPT
    !.completed = rn.completed + 1,
    !.log = rn.log \o <<EvProgress(rn.idx, CurUrl(rn), Whole(rn.completed + 1), Total(rn)),
                        EvComplete(rn.idx, CurUrl(rn), rn.receivedLength)>>,
    !.results = Append(rn.results,
                       [url |-> CurUrl(rn), cached |-> FALSE, size |-> rn.receivedLength])])

\* faulty variant: the contentLength > 0 test is missing
ChunkReadUnguarded(rn, n) ==
  LET got == rn.receivedLength + n IN
  [rn EXCEPT
    !.receivedLength = got,
    !.log = Append(rn.log, EvProgress(rn.idx, CurUrl(rn),
                            FileProgress(rn.completed, got, rn.contentLength),
                            Total(rn)))]

\* one chunk of value.length = n read from the body (lines 205-212)
ChunkRead(rn, n) ==
  LET got == rn.receivedLength + n IN
  [rn EXCEPT
    !.receivedLength = got,
    !.log = IF rn.contentLength > 0
              THEN Append(rn.log, EvProgress(rn.idx, CurUrl(rn),
                                   FileProgress(rn.completed, got, rn.contentLength),
                                   Total(rn)))
              ELSE rn.log]

\* prefetchAssets(assetList, callbacks) is called
StartRun(r, list) ==
  /\ run[r].pc = "idle"
  /\ clr.pc \in {"idle", "returned", "crashed"}
  /\ run' = [run EXCEPT ![r] = [IdleRun EXCEPT !.pc = "loop", !.list = list]]
  /\ UNCHANGED <<otherVars, metaStore, cacheStorage, now, clr, sw, info>>

\* loop head: onFileStart(url, name), then getAssetMeta(url) is awaited
BeginItem(r) ==
  /\ run[r].pc = "loop"
  /\ run[r].idx <= Total(run[r])
  /\ run' = [run EXCEPT ![r] =
       [run[r] EXCEPT !.pc = "getMeta",
                      !.log = Append(run[r].log, EvStart(run[r].idx, CurUrl(run[r]))),
                      !.contentLength = 0, !.etag = "", !.bodyLen = 0,
                      !.receivedLength = 0]]
  /\ UNCHANGED <<otherVars, metaStore, cacheStorage, now, clr, sw, info>>

\* faulty variant: a closing onProgress(completed, total) precedes the return
ReturnResultsReports(r) ==
  /\ run[r].pc = "loop"
  /\ run[r].idx > Total(run[r])
  /\ run' = [run EXCEPT
       ![r].pc = "returned",
       ![r].log = Append(run[r].log,
                         EvProgress(run[r].idx, "", Whole(run[r].completed), Total(run[r])))]
  /\ UNCHANGED <<otherVars, metaStore, cacheStorage, now, clr, sw, info>>

\* return results
ReturnResults(r) ==
  /\ run[r].pc = "loop"
  /\ run[r].idx > Total(run[r])
  /\ run' = [run EXCEPT ![r].pc = "returned"]
  /\ UNCHANGED <<otherVars, metaStore, cacheStorage, now, clr, sw, info>>

\* const meta = await getAssetMeta(url) resolves
GetMetaDone(r) ==
  /\ run[r].pc = "getMeta"
  /\ LET found == GetAssetMeta(metaStore, CurUrl(run[r])) IN
       run' = [run EXCEPT ![r] =
         IF found # {}
           THEN CacheHit(run[r], CHOOSE m \in found : TRUE)
           ELSE CacheMiss(run[r])]
  /\ UNCHANGED <<otherVars, metaStore, cacheStorage, now, clr, sw, info>>

\* getAssetMeta rejects: indexedDB.open or store.get fails
GetMetaFails(r) ==
  /\ run[r].pc = "getMeta"
  /\ run' = [run EXCEPT ![r] = CatchBlock(run[r], "idb-read")]
  /\ UNCHANGED <<otherVars, metaStore, cacheStorage, now, clr, sw, info>>

\* await fetch(url) rejects (network error)
FetchRejects(r) ==
  /\ run[r].pc = "fetch"
  /\ run' = [run EXCEPT ![r] = CatchBlock(run[r], "network")]
  /\ UNCHANGED <<otherVars, metaStore, cacheStorage, now, clr, sw, info>>

\* await fetch(url) resolves with a response
FetchResponds(r, status, header, etag) ==
  /\ run[r].pc = "fetch"
  /\ run' = [run EXCEPT ![r] =
       IF ~ResponseOk(status)
         THEN CatchBlock(run[r], "http")
         ELSE [run[r] EXCEPT !.pc = "cacheOpen",
                             !.contentLength = ParseContentLength(header),
                             !.etag = etag]]
  /\ UNCHANGED <<otherVars, metaStore, cacheStorage, now, clr, sw, info>>

\* const cache = await caches.open('xr-cache-v1'): creates the cache if missing
CacheOpen(r) ==
  /\ run[r].pc = "cacheOpen"
  /\ cacheStorage' = IF CACHE_VERSION \in DOMAIN cacheStorage
                       THEN cacheStorage
                       ELSE MapPut(cacheStorage, CACHE_VERSION, EmptyMap)
  /\ run' = [run EXCEPT ![r].pc = "cachePut"]
  /\ UNCHANGED <<otherVars, metaStore, now, clr, sw, info>>

CacheOpenFails(r) ==
  /\ run[r].pc = "cacheOpen"
  /\ run' = [run EXCEPT ![r] = CatchBlock(run[r], "cache-open")]
  /\ UNCHANGED <<otherVars, metaStore, cacheStorage, now, clr, sw, info>>

\* await cache.put(url, response.clone()) resolves: the clone's whole body,
\* of n bytes, has arrived and is stored under url.  The cache object stays
\* usable if the cache was deleted meanwhile, but then nothing is reachable
\* through Cache Storage.
CachePut(r, n) ==
  /\ run[r].pc = "cachePut"
  /\ cacheStorage' =
       IF CACHE_VERSION \in DOMAIN cacheStorage
         THEN [cacheStorage EXCEPT
                 ![CACHE_VERSION] = MapPut(cacheStorage[CACHE_VERSION], CurUrl(run[r]), n)]
         ELSE cacheStorage
  /\ run' = [run EXCEPT ![r].pc = "read", ![r].bodyLen = n]
  /\ UNCHANGED <<otherVars, metaStore, now, clr, sw, info>>

\* cache.put rejects: the body failed in transit, or the write failed
CachePutFails(r) ==
  /\ run[r].pc = "cachePut"
  /\ run' = [run EXCEPT ![r] = CatchBlock(run[r], "cache-put")]
  /\ UNCHANGED <<otherVars, metaStore, cacheStorage, now, clr, sw, info>>

\* const { done, value } = await reader.read() with done = false
ReadChunk(r, n) ==
  /\ run[r].pc = "read"
  /\ run[r].receivedLength + n <= run[r].bodyLen
  /\ run' = [run EXCEPT ![r] = ChunkRead(run[r], n)]
  /\ UNCHANGED <<otherVars, metaStore, cacheStorage, now, clr, sw, info>>

\* reader.read() gives done = true; saveAssetMeta is awaited
ReadDone(r) ==
  /\ run[r].pc = "read"
  /\ run[r].receivedLength = run[r].bodyLen
  /\ run' = [run EXCEPT ![r].pc = "saveMeta"]
  /\ UNCHANGED <<otherVars, metaStore, cacheStorage, now, clr, sw, info>>

\* await saveAssetMeta(url, {size: receivedLength, ...}) resolves; Date.now()
\* returned t
SaveMetaDone(r, t) ==
  /\ run[r].pc = "saveMeta"
  /\ t >= now
  /\ now' = t
  /\ metaStore' = SaveAssetMeta(metaStore, CurUrl(run[r]),
                    [size |-> run[r].receivedLength, etag |-> run[r].etag], t)
  /\ run' = [run EXCEPT ![r] = Downloaded(run[r])]
  /\ UNCHANGED <<otherVars, cacheStorage, clr, sw, info>>

\* faulty variant: saveAssetMeta is awaited outside the try block
SaveMetaFailsUncaught(r) ==
  /\ run[r].pc = "saveMeta"
  /\ run' = [run EXCEPT ![r].pc = "rejected"]
  /\ UNCHANGED <<otherVars, metaStore, cacheStorage, now, clr, sw, info>>

\* faulty variant: store.put took effect although saveAssetMeta rejects
SaveMetaFailsWritten(r) ==
  /\ run[r].pc = "saveMeta"
  /\ metaStore' = SaveAssetMeta(metaStore, CurUrl(run[r]),
                    [size |-> run[r].receivedLength, etag |-> run[r].etag], now)
  /\ run' = [run EXCEPT ![r] = CatchBlock(run[r], "idb-write")]
  /\ UNCHANGED <<otherVars, cacheStorage, now, clr, sw, info>>

\* saveAssetMeta rejects: indexedDB.open or store.put fails
SaveMetaFails(r) ==
  /\ run[r].pc = "saveMeta"
  /\ run' = [run EXCEPT ![r] = CatchBlock(run[r], "idb-write")]
  /\ UNCHANGED <<otherVars, metaStore, cacheStorage, now, clr, sw, info>>

Statuses == {200, 404}
Headers == {{}} \cup {{n} : n \in 0..MaxLen}
Etags == {"e1"}

RunStep(r) ==
  \/ BeginItem(r)
  \/ ReturnResults(r)
  \/ GetMetaDone(r)
  \/ GetMetaFails(r)
  \/ FetchRejects(r)
  \/ \E status \in Statuses, header \in Headers, etag \in Etags :
       FetchResponds(r, status, header, etag)
  \/ CacheOpen(r)
  \/ CacheOpenFails(r)
  \/ \E n \in 0..MaxLen : CachePut(r, n)
  \/ CachePutFails(r)
  \/ \E n \in 1..MaxLen : ReadChunk(r, n)
  \/ ReadDone(r)
  \/ \E t \in 0..MaxTime : SaveMetaDone(r, t)
  \/ SaveMetaFails(r)

\* ------------------------------------------------------- getCacheInfo
RECURSIVE SumSizes(_)
\* meta.reduce((sum, item) => sum + (item.size || 0), 0)
SumSizes(recs) ==
  IF recs = {} THEN 0
  ELSE LET x == CHOOSE y \in recs : TRUE IN x.size + SumSizes(recs \ {x})

\* faulty variant: files and totalSize are taken from the entries of the
\* Content Cache
CacheInfoFromCache(store) ==
  LET recs == {store[u] : u \in DOMAIN store}
      held == IF CACHE_VERSION \in DOMAIN cacheStorage
                THEN cacheStorage[CACHE_VERSION] ELSE EmptyMap
  IN
  [version |-> CACHE_VERSION,
   files |-> Cardinality(DOMAIN held),
   totalSize |-> SumSizes({[url |-> u, size |-> held[u]] : u \in DOMAIN held}),
   latestUpdate |-> IF recs = {} THEN {}
                    ELSE {CHOOSE t \in {x.timestamp : x \in recs} :
                            \A x \in recs : x.timestamp <= t},
   assets |-> recs]

\* files: meta.length, totalSize, latestUpdate: Math.max(...timestamps) or
\* null (the empty set), assets: the records read
CacheInfo(store) ==
  LET recs == {store[u] : u \in DOMAIN store} IN
  [version |-> CACHE_VERSION,
   files |-> Cardinality(DOMAIN store),
   totalSize |-> SumSizes(recs),
   latestUpdate |-> IF recs = {} THEN {}
                    ELSE {CHOOSE t \in {x.timestamp : x \in recs} :
                            \A x \in recs : x.timestamp <= t},
   assets |-> recs]

\* getCacheInfo() returns the snapshot
GetCacheInfo ==
  /\ info' = {CacheInfo(metaStore)}
  /\ UNCHANGED <<otherVars, metaStore, cacheStorage, now, run, clr, sw>>

\* getAllAssetMeta rejects: getCacheInfo() returns null (the empty set)
GetCacheInfoFails ==
  /\ info' = {}
  /\ UNCHANGED <<otherVars, metaStore, cacheStorage, now, run, clr, sw>>

\* ------------------------------------------- service worker: CLEAR_CACHE
IdleSw == [pc |-> "idle", pending |-> {}, reply |-> {}]

\* the names handleClearCache and clearAllCaches call caches.delete for
NamesToDelete(cacheNames) == {n \in cacheNames : IsXrCache(n)}

\* const cacheNames = await caches.keys(); the deletes are issued together
SwKeys ==
  /\ sw.pc = "keys"
  /\ sw' = [sw EXCEPT !.pc = "deleting", !.pending = NamesToDelete(DOMAIN cacheStorage)]
  /\ UNCHANGED <<otherVars, metaStore, cacheStorage, now, run, clr, info>>

\* caches.keys() rejects: the catch posts { ok: false }
SwKeysFails ==
  /\ sw.pc = "keys"
  /\ sw' = [sw EXCEPT !.pc = "idle", !.reply = {[ok |-> FALSE]}]
  /\ UNCHANGED <<otherVars, metaStore, cacheStorage, now, run, clr, info>>

\* one caches.delete(cacheName) of the worker resolves
SwDelete(n) ==
  /\ n \in sw.pending
  /\ cacheStorage' = MapRemove(cacheStorage, n)
  /\ sw' = [sw EXCEPT !.pending = sw.pending \ {n}]
  /\ UNCHANGED <<otherVars, metaStore, now, run, clr, info>>

\* one caches.delete rejects: Promise.all rejects at once, the catch posts
\* { ok: false }; the other deletes stay under way
SwDeleteFails(n) ==
  /\ n \in sw.pending
  /\ sw' = IF sw.pc = "deleting"
             THEN [sw EXCEPT !.pending = sw.pending \ {n}, !.pc = "idle",
                             !.reply = {[ok |-> FALSE]}]
             ELSE [sw EXCEPT !.pending = sw.pending \ {n}]
  /\ UNCHANGED <<otherVars, metaStore, cacheStorage, now, run, clr, info>>

\* Promise.all resolved: event.ports[0].postMessage({ ok: true })
SwReplyOk ==
  /\ sw.pc = "deleting"
  /\ sw.pending = {}
  /\ sw' = [sw EXCEPT !.pc = "idle", !.reply = {[ok |-> TRUE]}]
  /\ UNCHANGED <<otherVars, metaStore, cacheStorage, now, run, clr, info>>

\* ----------------------------------------------- UI: progress overlay
\* The file list of the overlay is a sequence of divs, one per list element,
\* each carrying the state shown; list[k] is the data-url of div k.

\* addFileToProgress(asset.url, asset.name, 'queued') for every asset
QueuedDivs(list) == [k \in 1..Len(list) |-> "queued"]

\* updateFileState(url, state): querySelector('[data-url="url"]') finds the
\* first div with that data-url, and only that div is updated
UpdateFileState(divs, list, url, state) ==
  LET found == {k \in 1..Len(list) : list[k] = url} IN
  IF found = {} THEN divs
  ELSE LET first == CHOOSE k \in found : \A j \in found : k <= j IN
       [divs EXCEPT ![first] = state]

\* what the callbacks handed to prefetchAssets do with a file's div
CallbackState(cb) ==
  IF cb = "onFileStart" THEN "downloading"
  ELSE IF cb = "onFileComplete" THEN "cached"
  ELSE "failed"

RECURSIVE ApplyCallbacks(_, _, _, _)
\* the divs after the events log[p..] were applied to divs
ApplyCallbacks(divs, list, log, p) ==
  IF p > Len(log) THEN divs
  ELSE IF log[p].cb \in {"onFileStart", "onFileComplete", "onFileError"}
    THEN ApplyCallbacks(UpdateFileState(divs, list, log[p].url, CallbackState(log[p].cb)),
                        list, log, p + 1)
    ELSE ApplyCallbacks(divs, list, log, p + 1)

\* the file list of the overlay during and after the run rn
Overlay(rn) == ApplyCallbacks(QueuedDivs(rn.list), rn.list, rn.log, 1)

\* ------------------------------------------ service worker: fetch event
\* requests: the network requests the handler has made for the event;
\* response: what respondWith got; put: a cache.put issued and not awaited
IdleFetch ==
  [pc |-> "idle", strategy |-> "none", url |-> "", requests |-> 0,
   response |-> {}, put |-> {}]

Methods == {"GET", "POST"}
Exts == {"glb", "json", "ts", "html"}

\* the fetch listener's choice (lines 108-147); "none": respondWith is not
\* called
Strategy(method, ext) ==
  IF method # "GET" THEN "none"
  ELSE IF ext \in {"glb", "gltf", "bin", "ktx2", "jpg", "jpeg", "png", "webp", "hdr"}
    THEN "cacheFirst"
  ELSE IF ext \in {"json"} THEN "staleWhileRevalidate"
  ELSE IF ext \in {"m3u8", "ts", "m4s"} THEN "networkOnly"
  ELSE "cacheFirst"

\* faulty variant: every response is cached
CachesAnyResponse(status) == TRUE

\* if (response.ok) cache.put(request, response.clone())
CachesResponse(status) == ResponseOk(status)

\* a fetch event arrives; cacheFirst(request) starts with caches.open
FetchEvent(method, ext, url) ==
  /\ swFetch.pc \in {"idle", "responded", "rejected", "passed"}
  /\ swFetch.put = {}
  /\ swFetch' =
       IF Strategy(method, ext) = "cacheFirst"
         THEN [IdleFetch EXCEPT !.pc = "open", !.strategy = "cacheFirst", !.url = url]
         ELSE [IdleFetch EXCEPT !.pc = "passed", !.strategy = Strategy(method, ext),
                                !.url = url]
  /\ UNCHANGED <<cacheVars, notFetch>>

\* const cache = await caches.open(CACHE_VERSION): creates the cache if missing
FetchCacheOpen ==
  /\ swFetch.pc = "open"
  /\ cacheStorage' = IF CACHE_VERSION \in DOMAIN cacheStorage
                       THEN cacheStorage
                       ELSE MapPut(cacheStorage, CACHE_VERSION, EmptyMap)
  /\ swFetch' = [swFetch EXCEPT !.pc = "match"]
  /\ UNCHANGED <<notFetch, metaStore, now, run, clr, sw, info>>

\* const cached = await cache.match(request); a match is returned, otherwise
\* fetch(request) is issued
FetchMatch ==
  /\ swFetch.pc = "match"
  /\ LET held == IF CACHE_VERSION \in DOMAIN cacheStorage
                   THEN cacheStorage[CACHE_VERSION] ELSE EmptyMap
     IN
     swFetch' =
       IF swFetch.url \in DOMAIN held
         THEN [swFetch EXCEPT !.pc = "responded",
                 !.response = {[from |-> "cache", status |-> 200,
                                len |-> held[swFetch.url]]}]
         ELSE [swFetch EXCEPT !.pc = "fetch", !.requests = swFetch.requests + 1]
  /\ UNCHANGED <<cacheVars, notFetch>>

\* await fetch(request) resolves: the response is returned, and put into
\* the cache (not awaited) if it is ok
FetchNetworkResponds(status, n) ==
  /\ swFetch.pc = "fetch"
  /\ swFetch' = [swFetch EXCEPT
       !.pc = "responded",
       !.response = {[from |-> "network", status |-> status, len |-> n]},
       !.put = IF CachesResponse(status) THEN {n} ELSE {}]
  /\ UNCHANGED <<cacheVars, notFetch>>

\* await fetch(request) rejects: the error is thrown again
FetchNetworkRejects ==
  /\ swFetch.pc = "fetch"
  /\ swFetch' = [swFetch EXCEPT !.pc = "rejected"]
  /\ UNCHANGED <<cacheVars, notFetch>>

\* the cache.put that was not awaited takes effect
FetchPutDone ==
  /\ swFetch.put # {}
  /\ cacheStorage' =
       IF CACHE_VERSION \in DOMAIN cacheStorage
         THEN [cacheStorage EXCEPT
                 ![CACHE_VERSION] = MapPut(cacheStorage[CACHE_VERSION], swFetch.url,
                                           CHOOSE n \in swFetch.put : TRUE)]
         ELSE cacheStorage
  /\ swFetch' = [swFetch EXCEPT !.put = {}]
  /\ UNCHANGED <<notFetch, metaStore, now, run, clr, sw, info>>

\* the cache.put that was not awaited rejects; nobody observes it
FetchPutFails ==
  /\ swFetch.put # {}
  /\ swFetch' = [swFetch EXCEPT !.put = {}]
  /\ UNCHANGED <<cacheVars, notFetch>>

FetchStep ==
  \/ \E method \in Methods, ext \in Exts, url \in Urls : FetchEvent(method, ext, url)
  \/ FetchCacheOpen
  \/ FetchMatch
  \/ \E status \in Statuses, n \in 0..MaxLen : FetchNetworkResponds(status, n)
  \/ FetchNetworkRejects
  \/ FetchPutDone
  \/ FetchPutFails

\* the worker is stopped or replaced before it answers: handleClearCache is
\* started without event.waitUntil, so nothing keeps the worker alive
SwStopped ==
  /\ sw.pc \in {"keys", "deleting"}
  /\ sw' = [IdleSw EXCEPT !.pc = "stopped"]
  /\ UNCHANGED <<otherVars, metaStore, cacheStorage, now, run, clr, info>>

\* ------------------------------------------------ Controls: pointer lock
\* pointerLocked, orbitEnabled: this.pointerLocked, this.orbitControls.enabled;
\* listening: onPointerLockChange, onKeyDown, ... are attached to document;
\* lockElement: document.pointerLockElement is the canvas;
\* request: canvas.requestPointerLock() is under way;
\* events: pointerlockchange events queued and not yet dispatched
IdleControls ==
  [mode |-> "desktop", pointerLocked |-> FALSE, orbitEnabled |-> TRUE,
   listening |-> FALSE, lockElement |-> FALSE, request |-> FALSE, events |-> 0]

MaxEvents == 2

\* cleanupPointerLock(): the listeners are removed
CleanupPointerLock(c) == [c EXCEPT !.listening = FALSE]

\* requestPointerLock(): the request is made, the listeners are attached
RequestPointerLock(c) == [c EXCEPT !.request = TRUE, !.listening = TRUE]

\* exitPointerLock(): document.exitPointerLock() if an element is locked
\* (the browser unlocks and queues pointerlockchange), then
\* cleanupPointerLock()
ExitPointerLock(c) ==
  CleanupPointerLock(
    IF c.lockElement
      THEN [c EXCEPT !.lockElement = FALSE, !.events = c.events + 1]
      ELSE c)

\* onPointerLockChange
OnPointerLockChange(c) ==
  IF c.lockElement
    THEN [c EXCEPT !.pointerLocked = TRUE, !.orbitEnabled = FALSE]
    ELSE CleanupPointerLock([c EXCEPT !.pointerLocked = FALSE, !.orbitEnabled = TRUE])

\* togglePointerLock()
TogglePointerLock ==
  /\ controls.mode = "desktop"
  /\ controls.events < MaxEvents
  /\ controls' = IF ~controls.pointerLocked
                   THEN RequestPointerLock(controls)
                   ELSE ExitPointerLock(controls)
  /\ UNCHANGED notControls

\* the browser grants the request: the canvas is locked, pointerlockchange
\* is queued
LockGranted ==
  /\ controls.request
  /\ controls.events < MaxEvents
  /\ controls' = [controls EXCEPT !.request = FALSE, !.lockElement = TRUE,
                                  !.events = controls.events + 1]
  /\ UNCHANGED notControls

\* the browser refuses the request: pointerlockerror, whose handler only logs
LockRefused ==
  /\ controls.request
  /\ controls' = [controls EXCEPT !.request = FALSE]
  /\ UNCHANGED notControls

\* the browser ends the lock on its own (Escape, focus loss)
BrowserUnlock ==
  /\ controls.lockElement
  /\ controls.events < MaxEvents
  /\ controls' = [controls EXCEPT !.lockElement = FALSE, !.events = controls.events + 1]
  /\ UNCHANGED notControls

\* a queued pointerlockchange is dispatched; it reaches onPointerLockChange
\* only if the listener is attached
DispatchLockChange ==
  /\ controls.events > 0
  /\ controls' = LET c == [controls EXCEPT !.events = controls.events - 1] IN
                 IF controls.listening THEN OnPointerLockChange(c) ELSE c
  /\ UNCHANGED notControls

\* keydown with code Escape reaches onKeyDown: exitPointerLock()
EscapeKeyDown ==
  /\ controls.listening
  /\ controls.events < MaxEvents
  /\ controls' = ExitPointerLock(controls)
  /\ UNCHANGED notControls

ControlsStep ==
  \/ TogglePointerLock
  \/ LockGranted
  \/ LockRefused
  \/ BrowserUnlock
  \/ DispatchLockChange
  \/ EscapeKeyDown

\* ------------------------------------------- LightManager: loadLightplan
MaxFixtures == 2

\* A fixtureData of the lightplan: "known" has one of the three types and
\* the fields its constructor reads, "unknown" has another type (createFixture
\* warns and returns null), "malformed" has a known type and no position
\* (position[0] throws before anything is added to the scene).
FixtureKinds == {"known", "unknown", "malformed"}

\* lightplan.fixtures (absent counts as empty: the loop is skipped)
Lightplans == SeqsUpTo(FixtureKinds, MaxFixtures)

\* call: where loadLightplan is (racing: awaiting Promise.race);
\* internal: where loadLightplanInternal is; timer: the setTimeout of
\* timeoutPromise; plan, next: the parsed lightplan.fixtures and the index
\* the loop is at; bpm: whether this.bpm was taken from the lightplan;
\* fixtures: this.fixtures.length (each fixture is also in the scene);
\* defaultLighting: createDefaultLighting() has added its four lights
IdleLights ==
  [call |-> "idle", internal |-> "idle", timer |-> "unset", plan |-> <<>>,
   next |-> 1, bpm |-> "constructor", fixtures |-> 0, defaultLighting |-> FALSE]

\* the catch block of loadLightplan: createDefaultLighting(), then return
FallBack(l) == [l EXCEPT !.call = "returned", !.defaultLighting = TRUE]

\* loadPromise settles: Promise.race settles with it unless the timeout
\* already did; loadLightplan falls back on a rejection
LoadPromiseSettles(l, outcome) ==
  LET ended == [l EXCEPT !.internal = outcome] IN
  IF l.call # "racing" THEN ended
  ELSE IF outcome = "rejected" THEN FallBack(ended)
  ELSE [ended EXCEPT !.call = "returned"]

\* loadLightplan(url): the timer is set, loadLightplanInternal runs up to
\* its await fetch(url)
LoadLightplan ==
  /\ lights.call = "idle"
  /\ lights' = [lights EXCEPT !.call = "racing", !.internal = "fetch",
                              !.timer = "armed"]
  /\ UNCHANGED notLights

\* the 10 seconds pass: timeoutPromise rejects; the timer is never cleared,
\* so it also fires after the race was settled
LightplanTimeout ==
  /\ lights.timer = "armed"
  /\ lights' = LET fired == [lights EXCEPT !.timer = "fired"] IN
               IF lights.call = "racing" THEN FallBack(fired) ELSE fired
  /\ UNCHANGED notLights

\* fetch(url) resolves: !response.ok throws, else response.json() is awaited
LightplanFetchResponds(ok) ==
  /\ lights.internal = "fetch"
  /\ lights' = IF ok THEN [lights EXCEPT !.internal = "json"]
               ELSE LoadPromiseSettles(lights, "rejected")
  /\ UNCHANGED notLights

\* fetch(url) rejects
LightplanFetchRejects ==
  /\ lights.internal = "fetch"
  /\ lights' = LoadPromiseSettles(lights, "rejected")
  /\ UNCHANGED notLights

\* response.json() rejects: the body is not JSON
LightplanJsonRejects ==
  /\ lights.internal = "json"
  /\ lights' = LoadPromiseSettles(lights, "rejected")
  /\ UNCHANGED notLights

\* what the fixture loop leaves, from index i with n fixtures pushed:
\* the number pushed and whether createFixture threw
RECURSIVE CreateFixtures(_, _, _)
CreateFixtures(plan, i, n) ==
  IF i > Len(plan) THEN [fixtures |-> n, threw |-> FALSE, next |-> i]
  ELSE IF plan[i] = "malformed" THEN [fixtures |-> n, threw |-> TRUE, next |-> i]
  ELSE CreateFixtures(plan, i + 1, IF plan[i] = "known" THEN n + 1 ELSE n)

\* response.json() resolves with the lightplan: bpm is set if given, the
\* fixtures are created in one synchronous loop, loadPromise settles
LightplanParsed(plan, hasBpm) ==
  /\ lights.internal = "json"
  /\ lights' =
       LET made == CreateFixtures(plan, 1, lights.fixtures)
           l == [lights EXCEPT !.plan = plan, !.next = made.next,
                               !.bpm = IF hasBpm THEN "lightplan" ELSE @,
                               !.fixtures = made.fixtures]
       IN LoadPromiseSettles(l, IF made.threw THEN "rejected" ELSE "resolved")
  /\ UNCHANGED notLights

LightsStep ==
  \/ LoadLightplan
  \/ LightplanTimeout
  \/ \E ok \in BOOLEAN : LightplanFetchResponds(ok)
  \/ LightplanFetchRejects
  \/ LightplanJsonRejects
  \/ \E plan \in Lightplans, hasBpm \in BOOLEAN : LightplanParsed(plan, hasBpm)


\* ------------------------------------------------------ clearAllCaches
\* Two ghosts: swReply is the event.data the page received (the code drops
\* it); before is the set of identifiers that had a record when clearAllCaches
\* was called.  alert is what the caller, onClearCache, showed the user after
\* the call.
IdleClr ==
  [pc |-> "idle", result |-> FALSE, pending |-> {}, swReply |-> {}, before |-> {},
   alert |-> {}]

ClearActive == clr.pc \in {"awaitReply", "keys", "deleting", "metaCleared"}

\* faulty variant: the clear is issued on a store that is not xr_asset_meta
ClearAssetMetaNoop(store) == store

\* clearAssetMeta: store.clear()
ClearAssetMeta(store) == EmptyMap

\* faulty variant: Promise.all of the deletes is not awaited
MetaClearEarly(c) == c.pc = "deleting"

\* the awaits of lines 267-274 are over: clearAssetMeta may be called
MetaClearReady(c) == c.pc = "deleting" /\ c.pending = {}

\* what clearAllCaches returns after its last step succeeded (line 280)
ClearReturnValue(c) == TRUE

\* clearAllCaches() is called; controller: navigator.serviceWorker.controller
\* is set, and then CLEAR_CACHE is posted to the worker
StartClear(controller) ==
  /\ ~ClearActive
  /\ clr.pending = {}
  /\ sw.pc = "idle" /\ sw.pending = {}
  /\ \A r \in Runs : run[r].pc = "idle"
  /\ clr' = [IdleClr EXCEPT !.pc = IF controller THEN "awaitReply" ELSE "keys",
                            !.before = DOMAIN metaStore]
  /\ sw' = IF controller THEN [IdleSw EXCEPT !.pc = "keys"] ELSE IdleSw
  /\ UNCHANGED <<otherVars, metaStore, cacheStorage, now, run, info>>

\* port1.onmessage: await promise resolves with event.data, which is dropped
ReceiveReply ==
  /\ clr.pc = "awaitReply"
  /\ sw.reply # {}
  /\ clr' = [clr EXCEPT !.pc = "keys", !.swReply = sw.reply]
  /\ sw' = [sw EXCEPT !.reply = {}]
  /\ UNCHANGED <<otherVars, metaStore, cacheStorage, now, run, info>>

\* const cacheNames = await caches.keys(); the deletes are issued together
PageKeys ==
  /\ clr.pc = "keys"
  /\ clr' = [clr EXCEPT !.pc = "deleting",
                        !.pending = NamesToDelete(DOMAIN cacheStorage)]
  /\ UNCHANGED <<otherVars, metaStore, cacheStorage, now, run, sw, info>>

PageKeysFails ==
  /\ clr.pc = "keys"
  /\ clr' = [clr EXCEPT !.pc = "returned", !.result = FALSE]
  /\ UNCHANGED <<otherVars, metaStore, cacheStorage, now, run, sw, info>>

\* one caches.delete(cacheName) of the page resolves
PageDelete(n) ==
  /\ n \in clr.pending
  /\ cacheStorage' = MapRemove(cacheStorage, n)
  /\ clr' = [clr EXCEPT !.pending = clr.pending \ {n}]
  /\ UNCHANGED <<otherVars, metaStore, now, run, sw, info>>

\* faulty variant: the rejection of a delete is swallowed (allSettled)
PageDeleteFailsIgnored(n) ==
  /\ n \in clr.pending
  /\ clr' = [clr EXCEPT !.pending = clr.pending \ {n}]
  /\ UNCHANGED <<otherVars, metaStore, cacheStorage, now, run, sw, info>>

\* one caches.delete rejects: Promise.all rejects at once and the catch
\* returns false; the other deletes stay under way
PageDeleteFails(n) ==
  /\ n \in clr.pending
  /\ clr' = IF clr.pc = "deleting"
              THEN [clr EXCEPT !.pending = clr.pending \ {n}, !.pc = "returned",
                               !.result = FALSE]
              ELSE [clr EXCEPT !.pending = clr.pending \ {n}]
  /\ UNCHANGED <<otherVars, metaStore, cacheStorage, now, run, sw, info>>

\* await clearAssetMeta() resolves
ClearMeta ==
  /\ MetaClearReady(clr)
  /\ metaStore' = ClearAssetMeta(metaStore)
  /\ clr' = [clr EXCEPT !.pc = "metaCleared"]
  /\ UNCHANGED <<otherVars, cacheStorage, now, run, sw, info>>

\* faulty variant: clearAssetMeta is awaited outside the try block
ClearMetaFailsUncaught ==
  /\ MetaClearReady(clr)
  /\ clr' = [clr EXCEPT !.pc = "rejected"]
  /\ UNCHANGED <<otherVars, metaStore, cacheStorage, now, run, sw, info>>

\* clearAssetMeta rejects
ClearMetaFails ==
  /\ MetaClearReady(clr)
  /\ clr' = [clr EXCEPT !.pc = "returned", !.result = FALSE]
  /\ UNCHANGED <<otherVars, metaStore, cacheStorage, now, run, sw, info>>

\* return true
ClearReturns ==
  /\ clr.pc = "metaCleared"
  /\ clr' = [clr EXCEPT !.pc = "returned", !.result = ClearReturnValue(clr)]
  /\ UNCHANGED <<otherVars, metaStore, cacheStorage, now, run, sw, info>>

\* the page dies (tab closed, crash) in the middle of clearAllCaches; deletes
\* it issued and that have not happened yet are lost
Crash ==
  /\ ClearActive
  /\ clr' = [clr EXCEPT !.pc = "crashed", !.pending = {}]
  /\ UNCHANGED <<otherVars, metaStore, cacheStorage, now, run, sw, info>>

\* onClearCache after await clearAllCaches(): the value the call returned
\* is not looked at; the catch branch is taken only if a call throws
OnClearCacheAlert(result) == "Cache cleared successfully"

\* onClearCache goes on after clearAllCaches returned: await
\* this.updateCacheInfo() (getCacheInfo gives a snapshot or null), then alert
ClearCacheAlerts ==
  /\ clr.pc = "returned"
  /\ clr.alert = {}
  /\ info' \in {{CacheInfo(metaStore)}, {}}
  /\ clr' = [clr EXCEPT !.alert = {OnClearCacheAlert(clr.result)}]
  /\ UNCHANGED <<otherVars, metaStore, cacheStorage, now, run, sw>>

\* ------------------------------------------------------------ the system
\* What an earlier session left behind: the assets in S were downloaded.
PriorLen == 1

PriorMeta(S) == [u \in S |-> MetaRecord(u, [size |-> PriorLen, etag |-> "e0"], 0)]

PriorCaches(S) ==
  [n \in CacheNames |-> IF n = CACHE_VERSION THEN [u \in S |-> PriorLen] ELSE EmptyMap]

InitStores ==
  \/ metaStore = EmptyMap /\ cacheStorage = EmptyMap
  \/ \E S \in SUBSET Urls : metaStore = PriorMeta(S) /\ cacheStorage = PriorCaches(S)

Init ==
  /\ InitStores
  /\ now = 0
  /\ run = [r \in Runs |-> IdleRun]
  /\ clr = IdleClr
  /\ sw = IdleSw
  /\ info = {}
  /\ swFetch = IdleFetch
  /\ controls = IdleControls
  /\ lastSave = {}
  /\ lights = IdleLights

Lists == SeqsUpTo(Urls, MaxList)

\* One call of prefetchAssets on the stores an earlier session left.
Next ==
  \/ \E list \in Lists : StartRun(1, list)
  \/ RunStep(1)

Spec == Init /\ [][Next]_vars

ClearStep ==
  \/ \E controller \in BOOLEAN : StartClear(controller)
  \/ SwKeys
  \/ SwKeysFails
  \/ \E n \in CacheNames : SwDelete(n)
  \/ \E n \in CacheNames : SwDeleteFails(n)
  \/ SwReplyOk
  \/ ReceiveReply
  \/ PageKeys
  \/ PageKeysFails
  \/ \E n \in CacheNames : PageDelete(n)
  \/ \E n \in CacheNames : PageDeleteFails(n)
  \/ ClearMeta
  \/ ClearMetaFails
  \/ ClearReturns
  \/ Crash

\* Cache administration, then one call of prefetchAssets.
NextClear ==
  \/ ClearStep
  \/ GetCacheInfo
  \/ GetCacheInfoFails
  \/ \E list \in SeqsUpTo(Urls, MaxAfterClear) : StartRun(1, list)
  \/ RunStep(1)

SpecClear == Init /\ [][NextClear]_vars
\* prefetchAssets is called again with the list of a run that returned with
\* no failed item
StartFollowing ==
  /\ run[1].pc = "returned"
  /\ \A k \in 1..Len(run[1].results) : "error" \notin DOMAIN run[1].results[k]
  /\ StartRun(2, run[1].list)

\* A run, then a second run over the same list.
NextTwice ==
  \/ \E list \in Lists : StartRun(1, list)
  \/ RunStep(1)
  \/ StartFollowing
  \/ RunStep(2)

SpecTwice == Init /\ [][NextTwice]_vars

\* Download Assets is used again after the earlier run returned, whatever
\* its outcome
StartLater ==
  /\ run[1].pc = "returned"
  /\ StartRun(2, run[1].list)

\* Cache administration, a call of prefetchAssets, then a later call.
NextStore ==
  \/ ClearStep
  \/ \E list \in SeqsUpTo(Urls, MaxAfterClear) : StartRun(1, list)
  \/ RunStep(1)
  \/ StartLater
  \/ RunStep(2)

SpecStore == Init /\ [][NextStore]_vars

\* Two calls of prefetchAssets whose awaits interleave freely (nothing in
\* onDownloadAssets keeps a second click from starting one).
NextBoth ==
  \/ \E r \in Runs : \E list \in SeqsUpTo(Urls, MaxBoth) : StartRun(r, list)
  \/ \E r \in Runs : RunStep(r)

SpecBoth == Init /\ [][NextBoth]_vars

\* The service worker answers fetch events.
NextFetch == FetchStep

SpecFetch == Init /\ [][NextFetch]_vars

\* The Clear Cache button: clearAllCaches, then the handler's report.
NextClearButton ==
  \/ ClearStep
  \/ ClearCacheAlerts

SpecClearButton == Init /\ [][NextClearButton]_vars

\* clearAllCaches with a page that stays alive and a worker that may stop.
NextClearLive ==
  \/ \E controller \in BOOLEAN : StartClear(controller)
  \/ SwKeys
  \/ SwKeysFails
  \/ \E n \in CacheNames : SwDelete(n)
  \/ \E n \in CacheNames : SwDeleteFails(n)
  \/ SwReplyOk
  \/ SwStopped
  \/ ReceiveReply
  \/ PageKeys
  \/ PageKeysFails
  \/ \E n \in CacheNames : PageDelete(n)
  \/ \E n \in CacheNames : PageDeleteFails(n)
  \/ ClearMeta
  \/ ClearMetaFails
  \/ ClearReturns

\* Every Cache Storage and IndexedDB operation completes (resolves or
\* rejects), every posted message is delivered, every continuation runs.
ClearFairness ==
  /\ WF_vars(SwKeys \/ SwKeysFails)
  /\ WF_vars(\E n \in CacheNames : SwDelete(n) \/ SwDeleteFails(n))
  /\ WF_vars(SwReplyOk)
  /\ WF_vars(ReceiveReply)
  /\ WF_vars(PageKeys \/ PageKeysFails)
  /\ WF_vars(\E n \in CacheNames : PageDelete(n) \/ PageDeleteFails(n))
  /\ WF_vars(ClearMeta \/ ClearMetaFails)
  /\ WF_vars(ClearReturns)

SpecClearLive == Init /\ [][NextClearLive]_vars /\ ClearFairness

\* saveAssetMeta is called with any meta object.
NextSave ==
  \E url \in Urls, meta \in Metas, t \in 0..MaxTime : SaveAssetMetaCall(url, meta, t)

SpecSave == Init /\ [][NextSave]_vars

\* Desktop mode: the user toggles pointer lock, the browser answers.
NextControls == ControlsStep

SpecControls == Init /\ [][NextControls]_vars

\* The app loads one lightplan.
NextLights == LightsStep

SpecLights == Init /\ [][NextLights]_vars

\* ============================================================ properties
RunPcs ==
  {"idle", "loop", "getMeta", "fetch", "cacheOpen", "cachePut", "read", "saveMeta",
   "returned"}

Failed(e) == "error" \in DOMAIN e

Hit(e) == ~Failed(e) /\ e.cached

Fetched(e) == ~Failed(e) /\ ~e.cached

\* the log has an event cb of item k
HasEvent(rn, k, cb) == \E p \in 1..Len(rn.log) : rn.log[p].i = k /\ rn.log[p].cb = cb

DownloadErrors == {"network", "http"}

StorageErrors == {"idb-read", "cache-open", "cache-put", "idb-write"}

\* C1: a failed download does not abort the run: every item handled so far has
\* exactly one result entry, in request order, whose kind follows from what
\* happened to that item alone (failed iff onFileError was invoked for it,
\* downloaded iff it was fetched and completed, cached iff it completed
\* without a fetch), and a run that returned has one entry per request.
C1_FailureIsolation ==
  \A r \in Runs :
    LET rn == run[r] IN
    /\ rn.pc \in RunPcs
    /\ rn.pc # "idle" => Len(rn.results) = rn.idx - 1
    /\ rn.pc = "returned" => Len(rn.results) = Len(rn.list)
    /\ \A k \in 1..Len(rn.results) :
         /\ rn.results[k].url = rn.list[k]
         /\ Failed(rn.results[k]) <=> HasEvent(rn, k, "onFileError")
         /\ Fetched(rn.results[k]) <=>
              HasEvent(rn, k, "fetch") /\ HasEvent(rn, k, "onFileComplete")
         /\ Hit(rn.results[k]) <=>
              ~HasEvent(rn, k, "fetch") /\ HasEvent(rn, k, "onFileComplete")

\* [A ok, B fails, C ok] on empty stores gave downloaded, failed, downloaded
C1_Witness ==
  LET rn == run[1] IN
  /\ rn.pc = "returned"
  /\ Len(rn.results) = 3
  /\ rn.list[1] # rn.list[2]
  /\ Fetched(rn.results[1])
  /\ Failed(rn.results[2]) /\ rn.results[2].error \in DownloadErrors
  /\ Fetched(rn.results[3])

\* how a step of run r from a store operation may end: the operation
\* succeeded and the item goes on or completes, or the item is failed with
\* onFileError(error) and the loop goes to the next item
StorageStepOk(r) ==
  LET a == run[r]
      b == run'[r]
      u == CurUrl(a)
  IN
  \/ /\ a.pc = "getMeta" /\ b.pc = "fetch" /\ b.results = a.results
     /\ u \notin DOMAIN metaStore
  \/ /\ a.pc = "getMeta" /\ b.pc = "loop" /\ b.idx = a.idx + 1
     /\ u \in DOMAIN metaStore
     /\ b.results = Append(a.results, [url |-> u, cached |-> TRUE, size |-> metaStore[u].size])
  \/ /\ a.pc = "cacheOpen" /\ b.pc = "cachePut" /\ b.results = a.results
     /\ CACHE_VERSION \in DOMAIN cacheStorage'
  \/ /\ a.pc = "cachePut" /\ b.pc = "read" /\ b.results = a.results
  \/ /\ a.pc = "saveMeta" /\ b.pc = "loop" /\ b.idx = a.idx + 1
     /\ u \in DOMAIN metaStore' /\ metaStore'[u].size = a.receivedLength
     /\ b.results = Append(a.results, [url |-> u, cached |-> FALSE, size |-> a.receivedLength])
  \/ \E error \in StorageErrors :
       /\ b.pc = "loop" /\ b.idx = a.idx + 1
       /\ b.results = Append(a.results, [url |-> u, error |-> error])
       /\ \E p \in Len(a.log) + 1..Len(b.log) : b.log[p] = EvError(a.idx, u, error)
       /\ metaStore' = metaStore
       /\ b.list = a.list

\* C2: prefetchAssets never rejects because of a store failure: a step at a
\* Metadata Store or Content Cache operation either succeeds or ends the item
\* as failed with onFileError invoked with the error, the loop goes on with the
\* next item, and a run that returned has one entry for every request.
C2_StorageFailureIsPerItem ==
  /\ [][\A r \in Runs :
          (run'[r] # run[r] /\ run[r].pc \in {"getMeta", "cacheOpen", "cachePut", "saveMeta"})
            => StorageStepOk(r)]_vars
  /\ [](\A r \in Runs :
          /\ run[r].pc \in RunPcs
          /\ run[r].pc = "returned" =>
               /\ Len(run[r].results) = Len(run[r].list)
               /\ \A k \in 1..Len(run[r].list) : HasEvent(run[r], k, "onFileStart"))

\* a store failure in the first item, and the second item was still downloaded
C2_Witness ==
  LET rn == run[1] IN
  /\ rn.pc = "returned"
  /\ Len(rn.results) = 2
  /\ Failed(rn.results[1]) /\ rn.results[1].error \in StorageErrors
  /\ Fetched(rn.results[2])

\* C3: an item whose identifier has a record when it is looked up causes no
\* network request and no write to either store; unless the lookup itself
\* fails, onFileComplete gets the stored size and the entry is cached with it.
C3_CacheHitShortCircuit ==
  [][\A r \in Runs :
       (/\ run[r].pc = "getMeta"
        /\ run'[r] # run[r]
        /\ CurUrl(run[r]) \in DOMAIN metaStore)
       =>
       LET a == run[r]
           b == run'[r]
           u == CurUrl(a)
           size == metaStore[u].size
       IN
       /\ metaStore' = metaStore
       /\ cacheStorage' = cacheStorage
       /\ ~HasEvent(b, a.idx, "fetch")
       /\ b.idx = a.idx + 1
       /\ \/ b.results = Append(a.results, [url |-> u, error |-> "idb-read"])
          \/ /\ b.results = Append(a.results, [url |-> u, cached |-> TRUE, size |-> size])
             /\ b.log[Len(b.log)] = EvComplete(a.idx, u, size)]_vars

\* a record left by an earlier session was found: cached with its size
C3_Witness ==
  LET rn == run[1] IN
  /\ rn.pc = "returned"
  /\ Len(rn.results) >= 1
  /\ Hit(rn.results[1]) /\ rn.results[1].size = PriorLen
  /\ ~HasEvent(rn, 1, "fetch")

\* the onProgress events of a run, in order
ProgressOf(rn) == SelectSeq(rn.log, LAMBDA e : e.cb = "onProgress")

\* C4: within a run the first argument of successive onProgress calls never
\* decreases.
C4_ProgressMonotone ==
  \A r \in Runs :
    LET ps == ProgressOf(run[r]) IN
    \A p \in 1..Len(ps) - 1 : FracLeq(ps[p].value, ps[p + 1].value)

\* C5: every onProgress value of item i lies between completed_before = i - 1
\* and completed_before + 1, no value exceeds total, and the last onProgress
\* value of a finished item is completed_before + 1.
C5_ProgressWithinItem ==
  \A r \in Runs :
    LET rn == run[r]
        ps == ProgressOf(rn)
    IN
    /\ \A p \in 1..Len(ps) :
         /\ FracLeq(Whole(ps[p].i - 1), ps[p].value)
         /\ FracLeq(ps[p].value, Whole(ps[p].i))
         /\ FracLeq(ps[p].value, Whole(ps[p].total))
    /\ \A k \in 1..Len(rn.results) :
         \E p \in 1..Len(ps) :
           /\ ps[p].i = k
           /\ FracEq(ps[p].value, Whole(k))
           /\ \A q \in p + 1..Len(ps) : ps[q].i > k

\* the requests of a run that were issued and whose item has not finished
InFlight(rn) == {k \in 1..Len(rn.list) : HasEvent(rn, k, "fetch") /\ k > Len(rn.results)}

\* item k has had its onFileComplete or onFileError among the first p events
FinishedBy(rn, k, p) ==
  \E q \in 1..p : rn.log[q].i = k /\ rn.log[q].cb \in {"onFileComplete", "onFileError"}

\* C6: items are processed one at a time in list order: the events of a run
\* are grouped by item in list order, each group opens with the item's only
\* onFileStart, onFileStart and the request of item k come after the
\* onFileComplete or onFileError of item k - 1, and at most one request of the
\* run is in flight.
C6_Sequential ==
  \A r \in Runs :
    LET rn == run[r] IN
    /\ \A p \in 1..Len(rn.log) - 1 : rn.log[p].i <= rn.log[p + 1].i
    /\ \A p \in 1..Len(rn.log) :
         /\ (p = 1 \/ rn.log[p - 1].i # rn.log[p].i) <=> rn.log[p].cb = "onFileStart"
         /\ (rn.log[p].cb \in {"onFileStart", "fetch"} /\ rn.log[p].i > 1)
              => FinishedBy(rn, rn.log[p].i - 1, p - 1)
    /\ Cardinality(InFlight(rn)) <= 1
    /\ rn.pc # "idle" =>
         \A k \in 1..Len(rn.list) :
           HasEvent(rn, k, "onFileStart") <=>
             (k < rn.idx \/ (k = rn.idx /\ rn.pc \notin {"loop", "returned"}))

\* three items, the second one being downloaded while a request is in flight
C6_Witness ==
  LET rn == run[1] IN
  /\ Len(rn.list) = 3
  /\ rn.idx = 2
  /\ rn.pc = "read"
  /\ InFlight(rn) = {2}
  /\ Fetched(rn.results[1])
\* the Content Cache (xr-cache-v1) holds bytes for identifier u
HasBytes(u) ==
  CACHE_VERSION \in DOMAIN cacheStorage /\ u \in DOMAIN cacheStorage[CACHE_VERSION]

\* C7: after clearAllCaches returned true the Metadata Store is empty, no
\* xr-cache-* cache exists and getCacheInfo reports files = 0; the run that
\* follows treats an identifier that had a record before the clear as a miss
\* at its first occurrence: unless the lookup itself fails, a request is
\* issued for it.
C7_ClearEmptiesStores ==
  (clr.pc = "returned" /\ clr.result) =>
    LET rn == run[1] IN
    /\ rn.pc = "idle" =>
         /\ metaStore = EmptyMap
         /\ NamesToDelete(DOMAIN cacheStorage) = {}
         /\ CacheInfo(metaStore).files = 0
    /\ \A k \in 1..Len(rn.results) :
         (rn.list[k] \in clr.before /\ \A j \in 1..k - 1 : rn.list[j] # rn.list[k]) =>
           /\ ~Hit(rn.results[k])
           /\ \/ HasEvent(rn, k, "fetch")
              \/ Failed(rn.results[k]) /\ rn.results[k].error = "idb-read"

\* an identifier cached before a successful clear was downloaded again
C7_Witness ==
  LET rn == run[1] IN
  /\ clr.pc = "returned" /\ clr.result
  /\ rn.pc = "returned"
  /\ Len(rn.results) = 1
  /\ rn.list[1] \in clr.before
  /\ Fetched(rn.results[1])

\* C8 as stated: an interrupted clearAllCaches never leaves a record in the
\* Metadata Store for an identifier whose Content Cache bytes are gone.
C8_NoRecordWithoutBytes ==
  clr.pc = "crashed" => \A u \in DOMAIN metaStore : HasBytes(u)

\* C8 as amended: the order is the other way round.  Whenever records are
\* removed from the Metadata Store, every xr-cache-* cache is already deleted,
\* so an interrupted clear never leaves bytes whose record it removed.
C8_BytesDeletedBeforeRecords ==
  [][(\E u \in DOMAIN metaStore : u \notin DOMAIN metaStore')
       => NamesToDelete(DOMAIN cacheStorage) = {}]_vars

\* the page died after the Metadata Store was cleared
C8_Witness ==
  /\ clr.pc = "crashed"
  /\ clr.before # {}
  /\ metaStore = EmptyMap
  /\ NamesToDelete(DOMAIN cacheStorage) = {}

\* C9: when the worker answered CLEAR_CACHE with ok: false, clearAllCaches
\* does not return true.
C9_WorkerFailureReported ==
  (clr.pc = "returned" /\ clr.swReply = {[ok |-> FALSE]}) => ~clr.result

\* C10: the run that follows a run without a failed item, over the same list,
\* issues no network request; every item is cached with the size the first run
\* reported (unless the lookup itself fails in the second run).
C10_RerunIsCached ==
  LET first == run[1]
      again == run[2]
  IN
  again.pc # "idle" =>
    /\ again.list = first.list
    /\ \A p \in 1..Len(again.log) : again.log[p].cb # "fetch"
    /\ \A k \in 1..Len(again.results) :
         \/ Hit(again.results[k]) /\ again.results[k].size = first.results[k].size
         \/ Failed(again.results[k]) /\ again.results[k].error = "idb-read"
    /\ again.pc = "returned" => Len(again.results) = Len(first.results)

\* the first run downloaded two items, the second run found both cached
C10_Witness ==
  /\ run[2].pc = "returned"
  /\ Len(run[2].results) >= 2
  /\ Fetched(run[1].results[1]) /\ Fetched(run[1].results[2])
  /\ \A k \in 1..Len(run[2].results) : Hit(run[2].results[k])

\* item k of run rn has just been appended to its results
JustEnded(a, b) == Len(b.results) = Len(a.results) + 1

\* the last attempt of run rn to download u failed and no later item of rn
\* downloaded u
LeftUndownloaded(rn, u) ==
  \E j \in 1..Len(rn.results) :
    /\ rn.list[j] = u
    /\ Failed(rn.results[j]) /\ HasEvent(rn, j, "fetch")
    /\ \A i \in j + 1..Len(rn.results) : rn.list[i] = u => Failed(rn.results[i])

\* C11: the Metadata Store gains or replaces the record of an identifier only
\* in the step in which an item for it ends as downloaded (with the size of
\* that entry); records disappear only in clearAllCaches' clearAssetMeta step;
\* a step in which an item ends failed leaves the Metadata Store unchanged; and
\* a later run does not report a hit for an identifier whose download failed in
\* the earlier run: it requests it again (unless the lookup itself fails).
C11_RecordsFollowDownloads ==
  /\ [][/\ \A u \in DOMAIN metaStore' :
            (u \notin DOMAIN metaStore \/ metaStore'[u] # metaStore[u]) =>
              \E r \in Runs :
                run'[r].results =
                  Append(run[r].results,
                         [url |-> u, cached |-> FALSE, size |-> metaStore'[u].size])
        /\ (\E u \in DOMAIN metaStore : u \notin DOMAIN metaStore') =>
              (clr.pc = "deleting" /\ clr'.pc = "metaCleared")
        /\ \A r \in Runs :
              (JustEnded(run[r], run'[r]) /\ Failed(run'[r].results[Len(run'[r].results)]))
                => metaStore' = metaStore]_vars
  /\ [](\A k \in 1..Len(run[2].results) :
          LET u == run[2].list[k] IN
          (/\ LeftUndownloaded(run[1], u)
           /\ \A j \in 1..k - 1 : run[2].list[j] = u => Failed(run[2].results[j]))
          =>
          /\ ~Hit(run[2].results[k])
          /\ \/ HasEvent(run[2], k, "fetch")
             \/ run[2].results[k].error = "idb-read")

\* records were cleared, the run after the clear failed to download an
\* identifier, and the later run downloaded it
C11_Witness ==
  /\ clr.pc = "returned" /\ clr.result /\ clr.before # {}
  /\ run[1].pc = "returned" /\ run[2].pc = "returned"
  /\ Len(run[1].results) = 1
  /\ Failed(run[1].results[1]) /\ HasEvent(run[1], 1, "fetch")
  /\ Fetched(run[2].results[1])
  /\ run[2].list[1] \in DOMAIN metaStore

\* run rn is past cache.put for an item of identifier u that has not ended
PutUnderWay(rn, u) ==
  rn.pc \in {"read", "saveMeta"} /\ CurUrl(rn) = u

\* C12: an item that ends failed leaves the Content Cache as it was.  Stated
\* for a single run on stores where bytes and records agree: an identifier
\* whose items so far all ended failed or cached (none downloaded, none under
\* way) has a Content Cache entry only if it had one before the run, that is,
\* only if it has a record.
C12_FailedLeavesCache ==
  \A r \in Runs :
    LET rn == run[r] IN
    \A k \in 1..Len(rn.results) :
      LET u == rn.list[k] IN
      (/\ Failed(rn.results[k])
       /\ \A j \in 1..Len(rn.results) : rn.list[j] = u => ~Fetched(rn.results[j])
       /\ ~PutUnderWay(rn, u))
      => (HasBytes(u) => u \in DOMAIN metaStore)

\* C13: two overlapping runs on the same identifier do not corrupt the
\* stores.  Every step in which a run ends an item as downloaded leaves, for
\* that identifier, exactly the record that run wrote (its size, its etag,
\* the time of the write) and touches no other record, so the record is always
\* the last writer's; the Content Cache entry is always the whole body of one
\* response; and after both runs downloaded the identifier the record's size
\* and the entry's length are each those of one of the two downloads.
C13_LastWriterWins ==
  /\ [][\A r \in Runs :
          (JustEnded(run[r], run'[r]) /\ Fetched(run'[r].results[Len(run'[r].results)]))
          =>
          LET u == CurUrl(run[r])
              e == run'[r].results[Len(run'[r].results)]
          IN
          /\ u \in DOMAIN metaStore'
          /\ metaStore'[u] = [url |-> u, size |-> e.size, etag |-> run[r].etag,
                              timestamp |-> now']
          /\ \A v \in Urls \ {u} :
                /\ v \in DOMAIN metaStore' <=> v \in DOMAIN metaStore
                /\ v \in DOMAIN metaStore => metaStore'[v] = metaStore[v]]_vars
  /\ [](\A u \in Urls :
          (/\ run[1].pc = "returned" /\ run[2].pc = "returned"
           /\ run[1].list = <<u>> /\ run[2].list = <<u>>
           /\ Fetched(run[1].results[1]) /\ Fetched(run[2].results[1]))
          =>
          LET sizes == {run[1].results[1].size, run[2].results[1].size} IN
          /\ u \in DOMAIN metaStore
          /\ metaStore[u].url = u
          /\ metaStore[u].size \in sizes
          /\ HasBytes(u)
          /\ cacheStorage[CACHE_VERSION][u] \in sizes)

\* both runs missed and downloaded the same identifier, with bodies of
\* different lengths; the record is the one the first run wrote
C13_Witness ==
  /\ run[1].pc = "returned" /\ run[2].pc = "returned"
  /\ run[1].list = run[2].list /\ Len(run[1].list) = 1
  /\ Fetched(run[1].results[1]) /\ Fetched(run[2].results[1])
  /\ run[1].results[1].size # run[2].results[1].size
  /\ metaStore[run[1].list[1]].size = run[1].results[1].size

\* the calls of prefetchAssets that have started and not returned
ActiveRuns == {r \in Runs : run[r].pc \notin {"idle", "returned"}}

\* C14: at most one prefetchAssets run is active at any time.
C14_SingleRunActive == Cardinality(ActiveRuns) <= 1

\* event p of run rn is the integral onProgress(completed, total, name) that
\* ends item k
IntegralProgress(rn, p, k) ==
  /\ rn.log[p].cb = "onProgress"
  /\ rn.log[p].i = k
  /\ rn.log[p].value = Whole(k)

\* C15: when an item's download fails (network error or non-success
\* status), the integral onProgress of the item is invoked before its
\* onFileError.
C15_ProgressBeforeError ==
  \A r \in Runs :
    LET rn == run[r] IN
    \A p \in 1..Len(rn.log) :
      (rn.log[p].cb = "onFileError" /\ rn.log[p].error \in DownloadErrors) =>
        \E q \in 1..p - 1 : IntegralProgress(rn, q, rn.log[p].i)

\* C16: for a downloaded item the record is written first, with size equal
\* to the bytes received; then come the integral onProgress and then
\* onFileComplete with that size, as the item's last two events; the result
\* entry carries the same size.  While the write is still awaited no
\* onFileComplete of the item has been invoked, and once it has been invoked
\* the record is in the Metadata Store.
C16_RecordThenCallbacks ==
  /\ [][\A r \in Runs :
          (JustEnded(run[r], run'[r]) /\ Fetched(run'[r].results[Len(run'[r].results)]))
          =>
          LET a == run[r]
              b == run'[r]
              u == CurUrl(a)
              n == a.receivedLength
          IN
          /\ a.pc = "saveMeta"
          /\ n = a.bodyLen
          /\ u \in DOMAIN metaStore' /\ metaStore'[u].size = n
          /\ b.log = a.log \o <<EvProgress(a.idx, u, Whole(a.completed + 1), Total(a)),
                                 EvComplete(a.idx, u, n)>>
          /\ b.completed = a.completed + 1
          /\ b.results[Len(b.results)] = [url |-> u, cached |-> FALSE, size |-> n]]_vars
  /\ [](\A r \in Runs :
          LET rn == run[r] IN
          /\ rn.pc \in {"fetch", "cacheOpen", "cachePut", "read", "saveMeta"} =>
               ~HasEvent(rn, rn.idx, "onFileComplete")
          /\ \A p \in 1..Len(rn.log) :
               (rn.log[p].cb = "onFileComplete" /\ HasEvent(rn, rn.log[p].i, "fetch")) =>
                 /\ rn.log[p].url \in DOMAIN metaStore
                 /\ metaStore[rn.log[p].url].size = rn.log[p].size)

\* a body of two bytes was downloaded: record, events and entry agree on 2
C16_Witness ==
  LET rn == run[1] IN
  /\ rn.pc = "returned"
  /\ Len(rn.results) = 1
  /\ Fetched(rn.results[1]) /\ rn.results[1].size = 2
  /\ metaStore[rn.list[1]].size = 2
  /\ rn.log[Len(rn.log)] = EvComplete(1, rn.list[1], 2)
  /\ IntegralProgress(rn, Len(rn.log) - 1, 1)

\* the positions of the onProgress events of item k in the log of run rn
ProgressEvents(rn, k) ==
  {p \in 1..Len(rn.log) : rn.log[p].cb = "onProgress" /\ rn.log[p].i = k}

\* a response has arrived for the current item of rn
HasResponse(rn) == rn.pc \in {"cacheOpen", "cachePut", "read", "saveMeta"}

\* C17: for an item whose response declares no content length (absent or
\* zero) onProgress is called exactly once, when the item ends, with the value
\* completed_before + 1; no onProgress is called while its body is read; and
\* if it ends as downloaded the size in the record and in onFileComplete is
\* the number of bytes received, the whole body.
C17_NoLengthSingleProgress ==
  /\ [][\A r \in Runs :
          (/\ HasResponse(run[r])
           /\ run[r].contentLength = 0
           /\ JustEnded(run[r], run'[r]))
          =>
          LET a == run[r]
              b == run'[r]
              u == CurUrl(a)
              ps == ProgressEvents(b, a.idx)
          IN
          /\ Cardinality(ps) = 1
          /\ \A p \in ps : b.log[p].value = Whole(a.completed + 1)
          /\ a.completed = a.idx - 1
          /\ Fetched(b.results[Len(b.results)]) =>
                /\ a.receivedLength = a.bodyLen
                /\ metaStore'[u].size = a.bodyLen
                /\ b.log[Len(b.log)] = EvComplete(a.idx, u, a.bodyLen)]_vars
  /\ [](\A r \in Runs :
          (HasResponse(run[r]) /\ run[r].contentLength = 0) =>
            ProgressEvents(run[r], run[r].idx) = {})

\* no content length, a body of two bytes downloaded: one onProgress
C17_Witness ==
  LET rn == run[1] IN
  /\ rn.pc = "returned"
  /\ Len(rn.list) = 1
  /\ rn.contentLength = 0 /\ rn.bodyLen = 2
  /\ Fetched(rn.results[1]) /\ rn.results[1].size = 2
  /\ metaStore[rn.list[1]].size = 2
  /\ Cardinality(ProgressEvents(rn, 1)) = 1

\* the positions of the events cb of item k in the log of run rn
EventsOf(rn, k, cbs) ==
  {p \in 1..Len(rn.log) : rn.log[p].i = k /\ rn.log[p].cb \in cbs}

\* C18: when an identifier occurs more than once in a list, every occurrence
\* has its own onFileStart, its own onFileComplete or onFileError and its own
\* result entry, and an occurrence that follows a downloaded one causes no
\* request and ends as cached with the size of that download (unless the
\* lookup itself fails).
C18_DuplicateIsCached ==
  \A r \in Runs :
    LET rn == run[r] IN
    \A k \in 1..Len(rn.results) :
      /\ rn.results[k].url = rn.list[k]
      /\ Cardinality(EventsOf(rn, k, {"onFileStart"})) = 1
      /\ Cardinality(EventsOf(rn, k, {"onFileComplete", "onFileError"})) = 1
      /\ \A p \in EventsOf(rn, k, {"onFileStart", "onFileComplete", "onFileError"}) :
           rn.log[p].url = rn.list[k]
      /\ \A j \in 1..k - 1 :
           (rn.list[j] = rn.list[k] /\ Fetched(rn.results[j])) =>
             /\ ~HasEvent(rn, k, "fetch")
             /\ \/ Hit(rn.results[k]) /\ rn.results[k].size = rn.results[j].size
                \/ Failed(rn.results[k]) /\ rn.results[k].error = "idb-read"

\* the list a, b, a on stores without a: the first a was downloaded with two
\* bytes, the second a was cached with two bytes
C18_Witness ==
  LET rn == run[1] IN
  /\ rn.pc = "returned"
  /\ Len(rn.list) = 3
  /\ rn.list[1] = rn.list[3] /\ rn.list[1] # rn.list[2]
  /\ Fetched(rn.results[1]) /\ rn.results[1].size = 2
  /\ Hit(rn.results[3]) /\ rn.results[3].size = 2
  /\ Cardinality(EventsOf(rn, 3, {"onFileStart", "onFileComplete"})) = 2

\* C19: a call with an empty list returns an empty result; it invokes no
\* callback and issues no request (its event log stays empty), it never waits
\* on a store (it goes from the loop head straight to the return), and none
\* of its steps changes the Metadata Store or Cache Storage.
C19_EmptyListIsNoop ==
  /\ [](\A r \in Runs :
          (run[r].pc # "idle" /\ run[r].list = <<>>) =>
            /\ run[r].pc \in {"loop", "returned"}
            /\ run[r].results = <<>>
            /\ run[r].log = <<>>
            /\ run[r].completed = 0)
  /\ [][\A r \in Runs :
          (run'[r] # run[r] /\ run'[r].list = <<>>) =>
            /\ metaStore' = metaStore
            /\ cacheStorage' = cacheStorage
            /\ run[r].pc # "idle" => run'[r].pc = "returned"]_vars

\* a call with an empty list returned, on stores that hold an asset
C19_Witness ==
  /\ run[1].pc = "returned"
  /\ run[1].list = <<>>
  /\ run[1].results = <<>>
  /\ metaStore # EmptyMap
  /\ \E u \in Urls : HasBytes(u)

\* item.size || 0 of the record of u, 0 when u has no record
StoredSize(u) == IF u \in DOMAIN metaStore THEN metaStore[u].size ELSE 0

\* C20: what getCacheInfo returns is determined by the records of the
\* Metadata Store at the time of the call: files is their number, totalSize
\* the sum of their sizes, latestUpdate the largest timestamp among them, or
\* null (the empty set) when there are none, assets the records themselves;
\* the call changes neither store.  (A call whose read fails returns null.)
C20_SnapshotFromRecords ==
  [][info' # info =>
       /\ metaStore' = metaStore
       /\ cacheStorage' = cacheStorage
       /\ \/ info' = {}
          \/ \E snap \in info' :
               /\ info' = {snap}
               /\ snap.version = CACHE_VERSION
               /\ snap.files = Cardinality(DOMAIN metaStore)
               /\ snap.totalSize = StoredSize("a") + StoredSize("b")
               /\ snap.assets = {metaStore[u] : u \in DOMAIN metaStore}
               /\ (snap.latestUpdate = {}) <=> (metaStore = EmptyMap)
               /\ \A t \in snap.latestUpdate :
                    /\ \E u \in DOMAIN metaStore : metaStore[u].timestamp = t
                    /\ \A u \in DOMAIN metaStore : metaStore[u].timestamp <= t]_vars

\* two records, of 1 byte at time 0 and of 2 bytes at time 1, were reported
\* as files = 2, totalSize = 3, latestUpdate = 1
C20_Witness ==
  /\ Cardinality(DOMAIN metaStore) = 2
  /\ \E snap \in info :
       /\ snap.files = 2
       /\ snap.totalSize = 3
       /\ snap.latestUpdate = {1}
       /\ snap.assets = {metaStore[u] : u \in DOMAIN metaStore}

ClrPcs == {"idle", "awaitReply", "keys", "deleting", "metaCleared", "returned", "crashed"}

SnapshotFields == {"version", "files", "totalSize", "latestUpdate", "assets"}

C22_CacheBeforeMeta ==
  /\ [][metaStore' # metaStore /\ ClearActive =>
          /\ clr.pc = "deleting" /\ clr'.pc = "metaCleared"
          /\ clr.pending = {}
          /\ NamesToDelete(DOMAIN cacheStorage) = {}]_vars
  /\ []((clr.pc = "returned" /\ ~clr.result /\ run[1].pc = "idle") =>
          /\ DOMAIN metaStore = clr.before
          /\ metaStore \in {PriorMeta(S) : S \in SUBSET Urls})

\* a deletion failed: false was returned, an xr-cache-* cache and the
\* records are still there
C22_Witness ==
  /\ clr.pc = "returned" /\ ~clr.result
  /\ clr.before # {}
  /\ DOMAIN metaStore = clr.before
  /\ NamesToDelete(DOMAIN cacheStorage) # {}
  /\ CACHE_VERSION \notin DOMAIN cacheStorage

\* the xr-cache-v1 entries
Held ==
  IF CACHE_VERSION \in DOMAIN cacheStorage THEN cacheStorage[CACHE_VERSION] ELSE EmptyMap

\* C23: a request handled cache-first is answered from xr-cache-v1 without a
\* network request when the cache holds a match; otherwise one request is made
\* and its response is returned; an entry of the cache is created or replaced
\* only by the put of an ok response, with that response's body.
C23_CacheFirst ==
  /\ [][(swFetch.pc = "match" /\ swFetch'.pc # "match") =>
          IF swFetch.url \in DOMAIN Held
            THEN /\ swFetch'.pc = "responded"
                 /\ swFetch'.requests = 0
                 /\ swFetch'.response =
                      {[from |-> "cache", status |-> 200, len |-> Held[swFetch.url]]}
            ELSE swFetch'.pc = "fetch" /\ swFetch'.requests = 1]_vars
  /\ [][(swFetch.pc = "fetch" /\ swFetch'.pc = "responded") =>
          \E r \in swFetch'.response :
            /\ swFetch'.response = {r}
            /\ r.from = "network"
            /\ swFetch'.put # {} <=> (r.status >= 200 /\ r.status <= 299)
            /\ \A n \in swFetch'.put : n = r.len]_vars
  /\ [][\A u \in Urls :
          (u \in DOMAIN Held' /\ (u \notin DOMAIN Held \/ Held'[u] # Held[u])) =>
            \E r \in swFetch.response :
              /\ swFetch.url = u
              /\ r.from = "network" /\ r.status >= 200 /\ r.status <= 299
              /\ Held'[u] = r.len]_vars
  /\ [](\A r \in swFetch.response :
          /\ r.from = "cache" => swFetch.requests = 0
          /\ r.from = "network" => swFetch.requests = 1)

\* a miss was answered from the network with an ok response of two bytes,
\* which is now in the cache
C23_Witness ==
  /\ swFetch.pc = "responded"
  /\ swFetch.put = {}
  /\ swFetch.response = {[from |-> "network", status |-> 200, len |-> 2]}
  /\ swFetch.url \in DOMAIN Held
  /\ Held[swFetch.url] = 2
  /\ swFetch.url \notin DOMAIN metaStore

\* C24: every file of the overlay is queued until its item starts, and when
\* the run has returned every file shows cached or failed.
C24_OverlaySettles ==
  \A r \in Runs :
    LET rn == run[r] IN
    /\ \A k \in 1..Len(rn.list) :
         ~HasEvent(rn, k, "onFileStart") => Overlay(rn)[k] = "queued"
    /\ rn.pc = "returned" =>
         \A k \in 1..Len(rn.list) : Overlay(rn)[k] \in {"cached", "failed"}

\* C25: in desktop mode, whenever the pointer is not locked (and no request
\* or pointerlockchange event is still under way) OrbitControls is enabled and
\* pointerLocked is false.
C25_UnlockedMeansOrbit ==
  (/\ controls.mode = "desktop"
   /\ ~controls.lockElement
   /\ ~controls.request
   /\ controls.events = 0)
  => (controls.orbitEnabled /\ ~controls.pointerLocked)

\* the records of the Metadata Store, as getAll returns them
Records == {metaStore[u] : u \in DOMAIN metaStore}

\* C26: the Metadata Store holds at most one record per identifier, filed
\* under its own url, and a write for an identifier that already has a record
\* leaves only the written record: every field is the writer's, nothing of the
\* old record is kept.
C26_UpsertByUrl ==
  /\ [](/\ \A u \in Urls : Cardinality({rec \in Records : rec.url = u}) <= 1
        /\ \A u \in DOMAIN metaStore :
             /\ metaStore[u].url = u
             /\ DOMAIN metaStore[u] = {"url", "size", "etag", "timestamp"})
  /\ [][\A r \in Runs :
          (/\ run[r].pc = "saveMeta"
           /\ run'[r].pc # "saveMeta"
           /\ metaStore' # metaStore \/ ~Failed(run'[r].results[Len(run'[r].results)]))
          =>
          LET u == CurUrl(run[r]) IN
          /\ metaStore'[u] = [url |-> u, size |-> run[r].receivedLength,
                              etag |-> run[r].etag, timestamp |-> now']
          /\ DOMAIN metaStore' = DOMAIN metaStore \cup {u}]_vars

\* two overlapping runs wrote a record for the same identifier; the second
\* run's record, with another size and a later time, replaced the first's
C26_Witness ==
  /\ run[1].pc = "returned" /\ run[2].pc = "returned"
  /\ run[1].list = run[2].list /\ Len(run[1].list) = 1
  /\ Fetched(run[1].results[1]) /\ Fetched(run[2].results[1])
  /\ run[1].results[1].size = 1
  /\ metaStore[run[2].list[1]] =
       [url |-> run[2].list[1], size |-> 2, etag |-> "e1", timestamp |-> 1]

C28_ClearReturns == ClearActive ~> (clr.pc = "returned")

\* C29: onClearCache shows 'Cache cleared successfully' only if
\* clearAllCaches returned true; after false it shows a failure.
C29_AlertFollowsResult ==
  \A a \in clr.alert :
    (a = "Cache cleared successfully") <=> clr.result

\* C30: once loadLightplan has fallen back to default lighting (load error
\* or timeout), no fixture of the lightplan is added afterwards: no step
\* taken with the default lighting in the scene changes this.fixtures.
C30_NoFixtureAfterFallback ==
  [][lights.defaultLighting => lights'.fixtures = lights.fixtures]_vars
====
